---- MODULE Spec2Model ----
(***************************************************************************)
(* One pass of the solar EV charger controller (main.py), repeated by the  *)
(* external scheduler: readiness gate (charger.py), token acquisition and  *)
(* telemetry fetch (viessmann.py), allocation decision and charger write.  *)
(***************************************************************************)
EXTENDS Integers, Sequences, FiniteSets, TLC

VARIABLES
    pc,            \* position of main(): idle, ready, token, exchange, features,
                   \* decide, set, done; crashed when an exception left main
    device,        \* the charger's own registers frc, amp, psm
    resp,          \* JSON answer of the last /status request of this pass
    charger_data,  \* what check_for_readiness returned (FalseData for False)
    tokenFile,     \* content of token.json
    token,         \* the token get_token returned in this pass
    saved,         \* save_token ran in this pass
    fetch,         \* get_photovoltaic_data of this pass: none, ok, failed
    pv_data,       \* the PhotovoltaicData snapshot of this pass
    hour,          \* datetime.now().hour read by the decision
    available_power, \* final available_power of the decision
    kwargs,        \* arguments of the set_value call in progress
    calls,         \* set_value calls made in this pass (their kwargs)
    sent,          \* /set requests issued in this pass (their params)
    log,           \* outbound requests and the decision of this pass, in order
    raised,        \* an exception reached main's outer handler in this pass
    flow,          \* the flow get_token is running: none, pkce, implicit
    auth_code,     \* what the authorize request of the running flow yielded
    lk             \* inputs and results of a function applied on its own

vars == <<pc, device, resp, charger_data, tokenFile, token, saved, fetch, pv_data,
          hour, available_power, kwargs, calls, sent, log, raised, flow,
          auth_code, lk>>

\* Python's None for a numeric value (an absent key, a missing feature).
None == -99999

-----------------------------------------------------------------------------
\* main.py: the table of charger settings, in descending power.

possible_charger_settings ==
    << [power |-> 6900, amp |-> 10, psm |-> 2],
       [power |-> 6200, amp |-> 9,  psm |-> 2],
       [power |-> 5500, amp |-> 8,  psm |-> 2],
       [power |-> 4800, amp |-> 7,  psm |-> 2],
       [power |-> 4100, amp |-> 6,  psm |-> 2],
       [power |-> 3700, amp |-> 16, psm |-> 1],
       [power |-> 3200, amp |-> 14, psm |-> 1],
       [power |-> 2800, amp |-> 12, psm |-> 1],
       [power |-> 2300, amp |-> 10, psm |-> 1],
       [power |-> 1800, amp |-> 8,  psm |-> 1],
       [power |-> 1400, amp |-> 6,  psm |-> 1] >>

\* Fits with the threshold itself excluded.
Fits_Strict(p, frm, ap) == p.power < ap /\ (frm = 2 \/ p.psm = 1)

\* Fits with the comparison turned around.
Fits_Reversed(p, frm, ap) == p.power >= ap /\ (frm = 2 \/ p.psm = 1)

\* Fits without the phase filter.
Fits_AnyPhase(p, frm, ap) == p.power <= ap

\* The generator's condition of one table entry.
Fits(p, frm, ap) == p.power <= ap /\ (frm = 2 \/ p.psm = 1)

\* next(generator, None): the index of the first entry that fits, 0 for None.
RECURSIVE Scan(_, _, _)
Scan(i, frm, ap) ==
    IF i > Len(possible_charger_settings) THEN 0
    ELSE IF Fits(possible_charger_settings[i], frm, ap) THEN i
    ELSE Scan(i + 1, frm, ap)

FirstMatch(frm, ap) == Scan(1, frm, ap)

\* The dict comprehension keeping amp and psm, with frc=0 added by the call.
SettingArgs(i) ==
    [frc |-> 0, amp |-> possible_charger_settings[i].amp,
                psm |-> possible_charger_settings[i].psm]

-----------------------------------------------------------------------------
\* charger.py

DisableArgs == [frc |-> 1]

NoStatus == [fup |-> FALSE, car |-> None, frc |-> None, amp |-> None,
             psm |-> None, nrg |-> None, frm |-> None, pgt |-> None]

\* check_for_readiness returns False: modelled as the status with no field set.
FalseData == NoStatus

\* check_for_readiness stopping on car == 4 whatever frc is.
check_for_readiness_NoFrc(status) ==
    IF ~status.fup THEN FalseData
    ELSE IF status.car = 1 THEN FalseData
    ELSE IF status.car = 4 THEN FalseData
    ELSE status

\* check_for_readiness without the test for an unplugged vehicle.
check_for_readiness_NoCar(status) ==
    IF ~status.fup THEN FalseData
    ELSE IF status.car = 4 /\ status.frc = 0 THEN FalseData
    ELSE status

check_for_readiness(status) ==
    IF ~status.fup THEN FalseData
    ELSE IF status.car = 1 THEN FalseData
    ELSE IF status.car = 4 /\ status.frc = 0 THEN FalseData
    ELSE status

\* str() of a status value or of a keyword argument.
Digit == <<"0", "1", "2", "3", "4", "5", "6", "7", "8", "9">>

RECURSIVE Str(_)
Str(v) ==
    IF v = None THEN "None"
    ELSE IF v < 10 THEN Digit[v + 1]
    ELSE Str(v \div 10) \o Digit[(v % 10) + 1]

\* set_value sending every keyword argument as soon as one of them differs.
Params_All(status, kw) ==
    IF \A k \in DOMAIN kw : Str(status[k]) = Str(kw[k])
    THEN [k \in {} |-> 0]
    ELSE kw

\* set_value without the skip: every keyword argument is sent every time.
Params_NoSkip(status, kw) == kw

\* set_value: the keyword arguments whose string form differs from the status.
Params(status, kw) ==
    LET keys == {k \in DOMAIN kw : Str(status[k]) # Str(kw[k])}
    IN  [k \in keys |-> kw[k]]

\* The charger applies the parameters of a /set request it accepted.
Apply(dev, params) ==
    [k \in DOMAIN dev |-> IF k \in DOMAIN params THEN params[k] ELSE dev[k]]

-----------------------------------------------------------------------------
\* viessmann.py: the token cache and the identity flows.  A token is one of
\* good (exp well ahead), edge (exp = now + 60), stale (exp = now), noexp (no
\* exp claim), garbage (does not decode), empty ("") and null (None);
\* token.json is absent, corrupt, or holds one of them.

\* jwt.decode succeeds.
Decodes(t) == t \in {"good", "edge", "stale", "noexp"}

\* decoded_token.get("exp"), in seconds from now; None without the claim.
ExpiresIn(t) ==
    CASE t = "good" -> 3600
      [] t = "edge" -> 60
      [] t = "stale" -> 0
      [] OTHER -> None

load_cached_token(file) ==
    IF file \in {"absent", "corrupt"} THEN "null" ELSE file

\* is_token_valid accepting a token that expires in exactly 60 seconds.
is_token_valid_AtEdge(t) ==
    Decodes(t) /\ ExpiresIn(t) # None /\ ExpiresIn(t) >= 60

is_token_valid(t) ==
    Decodes(t) /\ ExpiresIn(t) # None /\ ExpiresIn(t) > 60

\* save_token leaving token.json as it was.
save_token_Noop(file, t) == file

\* save_token(token): the content of token.json afterwards.
save_token(file, t) == t

Truthy(t) == t \notin {"empty", "null"}

CacheHit(file) ==
    Truthy(load_cached_token(file)) /\ is_token_valid(load_cached_token(file))

\* What the authorize endpoint can answer: an error status, a 302 carrying the
\* code or token, a 302 without it (None), or a 2xx that is no redirect ("").
AuthorizeAnswers == {"error", "value", "null", "empty"}

\* get_access_token raising when the redirect carries no token.
get_access_token_Strict(answer) == IF answer = "value" THEN "good" ELSE "error"

\* get_access_token: the access_token of the redirect's fragment.
get_access_token(answer) == IF answer = "value" THEN "good" ELSE answer

\* What the token endpoint can answer: an error status, or a JSON body with
\* or without access_token.
TokenAnswers == {"error", "good", "null"}

\* The token endpoint issues a token for an authorization code it gave out only.
TokenEndpoint(code) ==
    IF code = "value" THEN TokenAnswers ELSE TokenAnswers \ {"good"}

\* The PKCE flow exchanging before it authorizes.
FlowRequests_Swapped(pkce) ==
    IF pkce THEN <<"token", "authorize">> ELSE <<"authorize">>

\* The PKCE flow asking for the authorization code a second time.
FlowRequests_Retry(pkce) ==
    IF pkce THEN <<"authorize", "authorize", "token">> ELSE <<"authorize">>

\* The endpoints one run of the configured flow requests, in order.
FlowRequests(pkce) == IF pkce THEN <<"authorize", "token">> ELSE <<"authorize">>

\* The features endpoint accepts a usable bearer token only.
Authorized(t) == t = "good"

\* get_photovoltaic_data from the feature values (None: feature not in the
\* response); NoPv stands for the TypeError of arithmetic on None.
NoPv == [solar_power |-> None, battery_power |-> None, grid_exchange |-> None,
         state_of_charge |-> None, household |-> None]

PhotovoltaicData(production, ess, exchange, soc) ==
    IF production = None \/ ess = None \/ exchange = None THEN NoPv
    ELSE [solar_power |-> production * 1000, battery_power |-> ess,
          grid_exchange |-> exchange, state_of_charge |-> soc,
          household |-> production * 1000 + ess + exchange]

-----------------------------------------------------------------------------
\* main.py: the decision.

Min(a, b) == IF a < b THEN a ELSE b
Max(a, b) == IF a > b THEN a ELSE b

\* available_power = pv_data.solar_power - effective_household - pgt
RawPower(status, pv) ==
    pv.solar_power - (pv.household - status.nrg) - status.pgt

\* Boost without the limit of 7500.
Boost_Uncapped(ap, soc, h) ==
    IF soc > 90 /\ h < 15 THEN ap + 1500 ELSE ap

\* Boost limited to 6000, below the largest threshold of the table.
Boost_LowCap(ap, soc, h) ==
    IF soc > 90 /\ h < 15 THEN Min(6000, ap + 1500) ELSE ap

\* allow discharging of the battery when it is almost full
Boost(ap, soc, h) ==
    IF soc > 90 /\ h < 15 THEN Min(7500, ap + 1500) ELSE ap

\* KeepCharging without the floor.
KeepCharging_Off(ap, status, soc) == ap

\* in frm=0 mode keep a charging charger charging
KeepCharging(ap, status, soc) ==
    IF status.frm = 0 /\ status.nrg > 0 /\ soc > 50 THEN Max(ap, 1500) ELSE ap

FinalPower(status, pv, h) ==
    KeepCharging(Boost(RawPower(status, pv), pv.state_of_charge, h),
                 status, pv.state_of_charge)

\* The arithmetic of lines 129-138 raises TypeError on a None operand.
DecisionRaises(status, pv) == status.pgt = None \/ pv.state_of_charge = None

\* Decision falling back to the smallest setting when no entry fits.
Decision_Fallback(frm, ap) ==
    IF ap <= 0 THEN DisableArgs
    ELSE IF FirstMatch(frm, ap) # 0 THEN SettingArgs(FirstMatch(frm, ap))
    ELSE SettingArgs(Len(possible_charger_settings))

\* The keyword arguments of the set_value call the decision makes.
Decision(frm, ap) ==
    IF ap <= 0 THEN DisableArgs
    ELSE IF FirstMatch(frm, ap) # 0 THEN SettingArgs(FirstMatch(frm, ap))
    ELSE DisableArgs

\* The inner except enabling the charger instead of disabling it.
OnFetchFailure_Enable == [frc |-> 0]

\* main's inner except: the call made when get_photovoltaic_data raised.
OnFetchFailure == DisableArgs

\* The outer except of main catching only what is raised outside the inner
\* except block.
Caught_NotNested(where) == IF where = "failsafe" THEN "crashed" ELSE "done"

\* Where main stands after an exception raised inside its try block, at
\* status, unpack, decide, set or failsafe: except Exception logs it and main ends.
Caught(where) == "done"

\* if not charger_data: return 0
AfterReadiness(data) == IF data = FalseData THEN "done" ELSE "token"

-----------------------------------------------------------------------------
\* The values the environment supplies.

CarValues == {1, 3, 4}
FrmValues == {0, 1, 2}
NrgValues == {0, 1500, None}
PgtValues == {0, 200, None}
ProductionValues == {5, None}
BatteryValues == {-500, 0, None}
GridValues == {2000, 0, -1400, -3700, -4100, -6900, None}
SocValues == {50, 51, 90, 91, None}
Hours == {14, 15}
InitialTokenFiles ==
    {"absent", "corrupt", "good", "edge", "stale", "noexp", "garbage"}

NoLookup == [frm |-> None, p1 |-> None, p2 |-> None, r1 |-> None, r2 |-> None]

InitMain ==
    /\ pc = "idle"
    /\ device \in [frc : {0, 1, 2}, amp : {6}, psm : {1}]
    /\ resp = NoStatus
    /\ charger_data = FalseData
    /\ tokenFile \in InitialTokenFiles
    /\ token = "null"
    /\ saved = FALSE
    /\ fetch = "none"
    /\ pv_data = NoPv
    /\ hour = None
    /\ available_power = None
    /\ kwargs = <<>>
    /\ calls = <<>>
    /\ sent = <<>>
    /\ log = <<>>
    /\ raised = FALSE
    /\ flow = "none"
    /\ auth_code = "none"

Init == InitMain /\ lk = NoLookup

\* main() up to the try block: load_config, the enabled switch.  Time has
\* passed since the last pass: a cached token may have come within 60 s of
\* its expiry.
StartPass ==
    /\ pc \in {"idle", "done"}
    /\ \E enabled \in BOOLEAN : pc' = IF enabled THEN "ready" ELSE "done"
    /\ tokenFile' \in CASE tokenFile = "good" -> {"good", "edge", "stale"}
                        [] tokenFile = "edge" -> {"stale"}
                        [] OTHER -> {tokenFile}
    /\ resp' = NoStatus
    /\ charger_data' = FalseData
    /\ token' = "null"
    /\ saved' = FALSE
    /\ fetch' = "none"
    /\ pv_data' = NoPv
    /\ hour' = None
    /\ available_power' = None
    /\ kwargs' = <<>>
    /\ calls' = <<>>
    /\ sent' = <<>>
    /\ log' = <<>>
    /\ raised' = FALSE
    /\ UNCHANGED <<device, flow, auth_code, lk>>

\* charger.check_for_readiness() and the unpacking of its result.
CheckForReadiness ==
    /\ pc = "ready"
    /\ log' = Append(log, "status")
    /\ \/ \* the /status request fails: main's outer except
          /\ raised' = TRUE
          /\ pc' = Caught("status")
          /\ UNCHANGED <<resp, charger_data>>
       \/ \E fup \in BOOLEAN, car \in CarValues, nrg \in NrgValues,
             frm \in FrmValues, pgt \in PgtValues :
            /\ resp' = [fup |-> fup, car |-> car, frc |-> device.frc,
                        amp |-> device.amp, psm |-> device.psm,
                        nrg |-> nrg, frm |-> frm, pgt |-> pgt]
            /\ charger_data' = check_for_readiness(resp')
            /\ IF AfterReadiness(charger_data') = "done"
               THEN pc' = "done" /\ raised' = FALSE
               ELSE IF charger_data'.nrg = None
               THEN pc' = Caught("unpack") /\ raised' = TRUE   \* None[11]
               ELSE pc' = AfterReadiness(charger_data') /\ raised' = FALSE
    /\ UNCHANGED <<device, tokenFile, token, saved, fetch, pv_data, hour,
                   available_power, kwargs, calls, sent, flow, auth_code, lk>>

\* get_photovoltaic_data raised: main's inner except calls charger.disable.
FailSafe ==
    /\ fetch' = "failed"
    /\ kwargs' = OnFetchFailure
    /\ calls' = Append(calls, OnFetchFailure)
    /\ pc' = "set"

\* viessmann.get_token() up to the answer of the authorize request: the
\* cached token when it is valid, else the first request of the configured flow.
GetToken ==
    /\ pc = "token"
    /\ \/ /\ CacheHit(tokenFile)
          /\ token' = load_cached_token(tokenFile)
          /\ pc' = "features"
          /\ UNCHANGED <<fetch, kwargs, calls, log, flow, auth_code>>
       \/ /\ ~CacheHit(tokenFile)
          /\ \E pkce \in BOOLEAN, a \in AuthorizeAnswers :
               /\ log' = log \o SubSeq(FlowRequests(pkce), 1, 1)
               /\ IF a = "error"      \* raise_for_status
                  THEN /\ FailSafe
                       /\ UNCHANGED <<flow, auth_code>>
                  ELSE /\ flow' = IF pkce THEN "pkce" ELSE "implicit"
                       /\ auth_code' = a
                       /\ pc' = "exchange"
                       /\ UNCHANGED <<fetch, kwargs, calls>>
          /\ UNCHANGED token
    /\ UNCHANGED <<device, resp, charger_data, tokenFile, saved, pv_data, hour,
                   available_power, sent, raised, lk>>

\* The rest of get_token: the code exchange of the PKCE flow or the fragment
\* of the implicit flow, then save_token and the return.
CompleteFlow ==
    /\ pc = "exchange"
    /\ \E t \in TokenEndpoint(auth_code) :
         LET pkce == flow = "pkce"
             got == IF pkce THEN t ELSE get_access_token(auth_code)
         IN  /\ log' = log \o Tail(FlowRequests(pkce))
             /\ IF got = "error"
                THEN /\ FailSafe
                     /\ UNCHANGED <<tokenFile, token, saved>>
                ELSE /\ tokenFile' = save_token(tokenFile, got)
                     /\ saved' = TRUE
                     /\ token' = got
                     /\ pc' = "features"
                     /\ UNCHANGED <<fetch, kwargs, calls>>
    /\ flow' = "none"
    /\ auth_code' = "none"
    /\ UNCHANGED <<device, resp, charger_data, pv_data, hour, available_power,
                   sent, raised, lk>>

\* viessmann.get_device_features() and the rest of get_photovoltaic_data.
GetDeviceFeatures ==
    /\ pc = "features"
    /\ log' = Append(log, "features")
    /\ \/ \* the request fails or the answer does not validate
          /\ FailSafe
          /\ UNCHANGED pv_data
       \/ /\ Authorized(token)
          /\ \E production \in ProductionValues, ess \in BatteryValues,
                exchange \in GridValues, soc \in SocValues :
               LET pv == PhotovoltaicData(production, ess, exchange, soc)
               IN  IF pv = NoPv
                   THEN FailSafe /\ UNCHANGED pv_data
                   ELSE /\ pv_data' = pv
                        /\ fetch' = "ok"
                        /\ pc' = "decide"
                        /\ UNCHANGED <<kwargs, calls>>
    /\ UNCHANGED <<device, resp, charger_data, tokenFile, token, saved, hour,
                   available_power, sent, raised, flow, auth_code, lk>>

\* main.py lines 121-167: the allocation decision and its set_value call.
Decide ==
    /\ pc = "decide"
    /\ \E h \in Hours :
         /\ hour' = h
         /\ IF DecisionRaises(charger_data, pv_data)
            THEN /\ raised' = TRUE
                 /\ pc' = Caught("decide")
                 /\ UNCHANGED <<available_power, kwargs, calls, log>>
            ELSE /\ available_power' = FinalPower(charger_data, pv_data, h)
                 /\ kwargs' = Decision(charger_data.frm, available_power')
                 /\ calls' = Append(calls, kwargs')
                 /\ log' = Append(log, "decision")
                 /\ pc' = "set"
                 /\ UNCHANGED raised
    /\ UNCHANGED <<device, resp, charger_data, tokenFile, token, saved, fetch,
                   pv_data, sent, flow, auth_code, lk>>

\* set_value writing the parameters it sent into the status it was given.
SetValue_Remembering ==
    /\ pc = "set"
    /\ LET params == Params(charger_data, kwargs)
       IN  IF DOMAIN params = {}
           THEN pc' = "done" /\ UNCHANGED <<device, sent, log, raised, charger_data>>
           ELSE /\ sent' = Append(sent, params)
                /\ log' = Append(log, "set")
                /\ charger_data' =
                      [k \in DOMAIN charger_data |->
                          IF k \in DOMAIN params THEN params[k] ELSE charger_data[k]]
                /\ \/ /\ device' = Apply(device, params)
                      /\ pc' = "done"
                      /\ UNCHANGED raised
                   \/ /\ raised' = TRUE
                      /\ pc' = Caught(IF fetch = "failed" THEN "failsafe" ELSE "set")
                      /\ UNCHANGED device
    /\ UNCHANGED <<resp, tokenFile, token, saved, fetch, pv_data,
                   hour, available_power, kwargs, calls, flow, auth_code, lk>>

\* charger.set_value(status, **kwargs)
SetValue ==
    /\ pc = "set"
    /\ LET params == Params(charger_data, kwargs)
       IN  IF DOMAIN params = {}
           THEN pc' = "done" /\ UNCHANGED <<device, sent, log, raised>>
           ELSE /\ sent' = Append(sent, params)
                /\ log' = Append(log, "set")
                /\ \/ /\ device' = Apply(device, params)
                      /\ pc' = "done"
                      /\ UNCHANGED raised
                   \/ \* the /set request fails: main's outer except
                      /\ raised' = TRUE
                      /\ pc' = Caught(IF fetch = "failed" THEN "failsafe" ELSE "set")
                      /\ UNCHANGED device
    /\ UNCHANGED <<resp, charger_data, tokenFile, token, saved, fetch, pv_data,
                   hour, available_power, kwargs, calls, flow, auth_code, lk>>

Next ==
    \/ StartPass
    \/ CheckForReadiness
    \/ GetToken
    \/ CompleteFlow
    \/ GetDeviceFeatures
    \/ Decide
    \/ SetValue

Spec == Init /\ [][Next]_vars

-----------------------------------------------------------------------------
\* The table lookup of main.py lines 153-160 on its own: two powers and a
\* phase-preference mode are drawn, and the lookup is applied to both.

Slack == 1

Powers ==
    {possible_charger_settings[i].power + d :
        i \in DOMAIN possible_charger_settings, d \in -Slack..Slack}
    \cup {-100, 0, 7500, 11000}

InitLookup ==
    /\ InitMain
    /\ device.frc = 1
    /\ tokenFile = "absent"
    /\ lk \in [frm : FrmValues, p1 : Powers, p2 : Powers, r1 : {None}, r2 : {None}]

Lookup ==
    /\ lk.r1 = None
    /\ lk' = [lk EXCEPT !.r1 = FirstMatch(lk.frm, lk.p1),
                        !.r2 = FirstMatch(lk.frm, lk.p2)]
    /\ UNCHANGED <<pc, device, resp, charger_data, tokenFile, token, saved, fetch,
                   pv_data, hour, available_power, kwargs, calls, sent, log, raised,
                   flow, auth_code>>

NextLookup == Lookup

SpecLookup == InitLookup /\ [][NextLookup]_vars


-----------------------------------------------------------------------------
\* Properties of one pass.

\* The /set requests of this pass that carry frc=0.
EnablingRequests == {i \in DOMAIN sent : "frc" \in DOMAIN sent[i] /\ sent[i].frc = 0}

Count(e) == Cardinality({i \in DOMAIN log : log[i] = e})

Table == possible_charger_settings

\* The table entries the phase-preference mode frm allows.
Eligible(frm) == {i \in DOMAIN Table : frm = 2 \/ Table[i].psm = 1}

\* The allowed entries whose threshold does not exceed ap.
Candidates(frm, ap) == {i \in Eligible(frm) : Table[i].power <= ap}

\* The pass took a decision: a final available_power exists.
Decided == available_power # None

\* C1: in a pass whose readiness check succeeded and whose telemetry fetch
\* failed, disable is called exactly once with the fetched status: one /set
\* request carrying only frc=1, or none when the status already shows frc=1,
\* and no request of the pass carries frc=0.
C1_FailSafeDisable ==
    (pc = "done" /\ fetch = "failed") =>
        /\ charger_data = resp
        /\ calls = << [frc |-> 1] >>
        /\ sent = IF resp.frc = 1 THEN <<>> ELSE << [frc |-> 1] >>
        /\ EnablingRequests = {}

C1_Witness ==
    /\ pc = "done"
    /\ fetch = "failed"
    /\ resp.frc = 0
    /\ sent = << [frc |-> 1] >>
    /\ device.frc = 1

\* C2: the events of a pass are ordered: the status read comes first, every
\* identity request before the feature request, the feature request before the
\* decision, the decision before the /set request; a decision is taken only
\* after a successful telemetry fetch, and a /set request with frc=0 is issued
\* only after a successful telemetry fetch and a decision.
Rank(e) ==
    CASE e = "status" -> 1
      [] e = "authorize" -> 2
      [] e = "token" -> 3
      [] e = "features" -> 4
      [] e = "decision" -> 5
      [] e = "set" -> 6

C2_PassOrder ==
    /\ \A i, j \in DOMAIN log : i < j => Rank(log[i]) < Rank(log[j])
    /\ log # <<>> => log[1] = "status"
    /\ Count("decision") > 0 => fetch = "ok" /\ Count("features") > 0
    /\ EnablingRequests # {} => fetch = "ok" /\ Count("decision") > 0

C2_Witness ==
    /\ pc = "done"
    /\ log = <<"status", "authorize", "token", "features", "decision", "set">>
    /\ EnablingRequests # {}

\* C3: no outbound call is repeated within a pass: the status, authorize,
\* token, features and set endpoints are each requested at most once on every
\* path, whether the pass succeeds or fails.
C3_NoRetry ==
    /\ \A e \in {"status", "authorize", "token", "features", "set"} : Count(e) <= 1
    /\ Len(sent) <= 1
    /\ Len(sent) = Count("set")

C3_Witness ==
    /\ pc = "done"
    /\ raised
    /\ fetch = "failed"
    /\ Count("authorize") = 1
    /\ Count("token") = 1
    /\ Len(sent) = 1
    /\ device.frc # 1

\* The stop conditions of the readiness gate, as the claim words them.
GateStops(st) == ~st.fup \/ st.car = 1 \/ (st.car = 4 /\ st.frc = 0)

\* C4: check_for_readiness reports stop whenever fup is false, whenever
\* car = 1, and whenever car = 4 and frc = 0; in every other case it reports
\* proceed and hands on the fetched status unchanged.
C4_ReadinessGate ==
    resp # NoStatus =>
        /\ ~resp.fup => charger_data = FalseData
        /\ resp.car = 1 => charger_data = FalseData
        /\ (resp.car = 4 /\ resp.frc = 0) => charger_data = FalseData
        /\ ~GateStops(resp) => (charger_data = resp /\ charger_data # FalseData)

C4_Witness ==
    /\ pc = "token"
    /\ resp.fup
    /\ resp.car = 4
    /\ resp.frc = 1
    /\ charger_data = resp

\* C5: when the readiness gate reports stop, the pass ends having made the
\* status read only: no identity request, no feature request, no write of the
\* token file, no set_value call and no /set request, and the charger's frc,
\* amp and psm stay as the status read found them.
C5_GateStopFrame ==
    (resp # NoStatus /\ GateStops(resp)) =>
        /\ pc = "done"
        /\ log = <<"status">>
        /\ ~saved
        /\ calls = <<>>
        /\ sent = <<>>
        /\ device = [frc |-> resp.frc, amp |-> resp.amp, psm |-> resp.psm]

C5_Witness ==
    /\ pc = "done"
    /\ resp.fup
    /\ resp.car = 1
    /\ resp.frc = 0
    /\ log = <<"status">>

\* C6: when the final available_power is positive and some allowed entry has
\* a threshold <= available_power, the controller calls set_value with frc=0
\* and the amp and psm of the allowed entry of greatest such threshold
\* (equality included), and a /set request carries no other value.
C6_GreatestFit ==
    (Decided /\ available_power > 0
        /\ Candidates(charger_data.frm, available_power) # {}) =>
        \E i \in Candidates(charger_data.frm, available_power) :
            /\ \A j \in Candidates(charger_data.frm, available_power) :
                   Table[j].power <= Table[i].power
            /\ calls = << [frc |-> 0, amp |-> Table[i].amp, psm |-> Table[i].psm] >>
            /\ \A n \in DOMAIN sent : \A k \in DOMAIN sent[n] : sent[n][k] = calls[1][k]

\* Between two thresholds with all entries allowed, and on a threshold.
C6_Witness ==
    /\ pc = "done"
    /\ charger_data.frm = 2
    /\ available_power = 4000
    /\ calls = << [frc |-> 0, amp |-> 16, psm |-> 1] >>
    /\ Len(sent) = 1

\* C7: whenever the final available_power is <= 0, or positive but below the
\* smallest allowed threshold, the pass makes exactly one disable call and no
\* /set request carries frc=0, amp or psm.
C7_DisableWithoutSurplus ==
    (Decided /\ (available_power <= 0
                 \/ \A i \in Eligible(charger_data.frm) :
                        available_power < Table[i].power)) =>
        /\ calls = << [frc |-> 1] >>
        /\ \A n \in DOMAIN sent : sent[n] = [frc |-> 1]

C7_Witness ==
    /\ pc = "done"
    /\ available_power > 0
    /\ available_power < 1400
    /\ calls = << [frc |-> 1] >>
    /\ sent = << [frc |-> 1] >>

\* C8: in a pass that reaches the decision with frm = 0, nrg[11] > 0 and
\* state_of_charge > 50, available_power is at least 1500 and the pass does not
\* disable: its one set_value call carries frc=0 and a single-phase entry whose
\* threshold is >= 1400 and <= available_power.
C8_Hysteresis ==
    (Decided /\ charger_data.frm = 0 /\ charger_data.nrg > 0
        /\ pv_data.state_of_charge > 50) =>
        /\ available_power >= 1500
        /\ Len(calls) = 1
        /\ calls[1] # [frc |-> 1]
        /\ \E i \in DOMAIN Table :
              /\ Table[i].psm = 1
              /\ Table[i].power >= 1400
              /\ Table[i].power <= available_power
              /\ calls[1] = [frc |-> 0, amp |-> Table[i].amp, psm |-> 1]

\* The raw surplus is negative and the floor alone keeps the charger on.
C8_Witness ==
    /\ pc = "done"
    /\ charger_data.frm = 0
    /\ charger_data.nrg > 0
    /\ pv_data.state_of_charge = 51
    /\ RawPower(charger_data, pv_data) < 0
    /\ calls = << [frc |-> 0, amp |-> 6, psm |-> 1] >>

\* C9: whenever state_of_charge > 90 and the hour is < 15, the available_power
\* the decision uses is at most 7500.
C9_BoostCapped ==
    (Decided /\ pv_data.state_of_charge > 90 /\ hour < 15) =>
        available_power <= 7500

\* The boosted sum would exceed 7500.
C9_Witness ==
    /\ Decided
    /\ pv_data.state_of_charge > 90
    /\ hour < 15
    /\ RawPower(charger_data, pv_data) + 1500 > 7500
    /\ available_power = 7500

\* C10: the lookup is monotonic: for a fixed frm and p1 < p2, when an entry
\* is selected for p1 an entry is selected for p2, its threshold is not lower
\* and it stands no later in the table.
C10_LookupMonotonic ==
    (lk.r1 # None /\ lk.p1 < lk.p2 /\ lk.r1 # 0) =>
        /\ lk.r2 # 0
        /\ Table[lk.r2].power >= Table[lk.r1].power
        /\ lk.r2 <= lk.r1

C10_Witness ==
    /\ lk.r1 # None
    /\ lk.frm = 2
    /\ lk.p1 = 3700
    /\ lk.p2 = 4100
    /\ lk.r1 = 6
    /\ lk.r2 = 5

\* C11: whenever frm # 2 every setting the controller writes has psm = 1,
\* however large available_power is: a set_value call or a /set request
\* carries psm = 2 only in a pass whose status has frm = 2.
C11_SinglePhaseUnlessFrm2 ==
    /\ \A n \in DOMAIN calls :
          ("psm" \in DOMAIN calls[n] /\ charger_data.frm # 2) => calls[n].psm = 1
    /\ \A n \in DOMAIN sent :
          ("psm" \in DOMAIN sent[n] /\ charger_data.frm # 2) => sent[n].psm = 1

\* More surplus than the largest three-phase threshold, and frm = 1.
C11_Witness ==
    /\ pc = "done"
    /\ charger_data.frm = 1
    /\ available_power >= 6900
    /\ calls = << [frc |-> 0, amp |-> 16, psm |-> 1] >>

-----------------------------------------------------------------------------
\* charger.set_value on its own: a status (a key may be absent) and the
\* keyword arguments of a call are drawn, and set_value is called with them,
\* then once more with the same arguments.

StatusArguments ==
    {[fup |-> TRUE, car |-> 3, frc |-> f, amp |-> a, psm |-> p,
      nrg |-> 0, frm |-> 2, pgt |-> 0] :
        f \in {0, 1, 2, None}, a \in {6, 16, None}, p \in {1, 2, None}}

KeywordArguments ==
    {DisableArgs} \cup {SettingArgs(i) : i \in DOMAIN possible_charger_settings}

\* The registers behind a status: the value shown, any value for an absent key.
Registers(status) ==
    [frc |-> IF status.frc = None THEN 0 ELSE status.frc,
     amp |-> IF status.amp = None THEN 6 ELSE status.amp,
     psm |-> IF status.psm = None THEN 1 ELSE status.psm]

InitSetValue ==
    /\ pc = "set"
    /\ charger_data \in StatusArguments
    /\ resp = charger_data
    /\ device = Registers(charger_data)
    /\ kwargs \in KeywordArguments
    /\ calls = <<kwargs>>
    /\ tokenFile = "absent"
    /\ token = "null"
    /\ saved = FALSE
    /\ fetch = "none"
    /\ pv_data = NoPv
    /\ hour = None
    /\ available_power = None
    /\ sent = <<>>
    /\ log = <<>>
    /\ raised = FALSE
    /\ flow = "none"
    /\ auth_code = "none"
    /\ lk = NoLookup

\* set_value(status, **kwargs) called again with the same two arguments.
CallAgain ==
    /\ pc = "done"
    /\ Len(calls) = 1
    /\ calls' = Append(calls, kwargs)
    /\ pc' = "set"
    /\ UNCHANGED <<device, resp, charger_data, tokenFile, token, saved, fetch,
                   pv_data, hour, available_power, kwargs, sent, log, raised,
                   flow, auth_code, lk>>

NextSetValue ==
    \/ SetValue
    \/ CallAgain

SpecSetValue == InitSetValue /\ [][NextSetValue]_vars

\* The keyword arguments whose value is not the one the status shows under
\* the same key (an absent key shows none).
Differing(status, kw) == {k \in DOMAIN kw : status[k] # kw[k]}

\* C12: set_value issues no /set request when every field has the string form
\* of the status value under the same key, and otherwise exactly one request
\* whose parameters are exactly the differing fields; a key absent from the
\* status differs.
C12_DiffOnly ==
    (pc = "done" /\ Len(calls) = 1) =>
        sent = IF Differing(charger_data, kwargs) = {}
               THEN <<>>
               ELSE << [k \in Differing(charger_data, kwargs) |-> kwargs[k]] >>

\* amp differs (6 against 16), frc is absent from the status, psm is the same.
C12_Witness ==
    /\ pc = "done"
    /\ Len(calls) = 1
    /\ charger_data.frc = None
    /\ charger_data.amp = 6
    /\ charger_data.psm = 1
    /\ sent = << [frc |-> 0, amp |-> 16] >>

\* C13 as claimed: two calls in a row with the same fields and the same
\* status make at most one /set request in total.
C13_AtMostOnce ==
    (pc = "done" /\ Len(calls) = 2) => Len(sent) <= 1

\* C13 amended: two calls in a row with the same fields and the same status
\* argument do the same thing twice: no /set request at all when no field
\* differs from the status, and otherwise two requests with the same
\* parameters; the second call is a no-op only when the first one was.
C13_SameTwice ==
    (pc = "done" /\ Len(calls) = 2) =>
        /\ calls[1] = calls[2]
        /\ Len(sent) = IF Differing(charger_data, kwargs) = {} THEN 0 ELSE 2
        /\ Len(sent) = 2 => sent[1] = sent[2]

C13_Witness ==
    /\ pc = "done"
    /\ Len(calls) = 2
    /\ kwargs = [frc |-> 1]
    /\ charger_data.frc = 0
    /\ sent = << [frc |-> 1], [frc |-> 1] >>

-----------------------------------------------------------------------------
\* Properties of the telemetry fetch and of missing fields.

\* C14: get_photovoltaic_data never returns a partial snapshot: when it
\* returns, solar_power, battery_power, grid_exchange, state_of_charge and
\* household are all populated; with any of the four features absent it fails.
C14_NoPartialSnapshot ==
    fetch = "ok" =>
        /\ pv_data.solar_power # None
        /\ pv_data.battery_power # None
        /\ pv_data.grid_exchange # None
        /\ pv_data.state_of_charge # None
        /\ pv_data.household # None

\* A field the pass needs after the gate is missing: nrg or pgt in the status,
\* or state_of_charge in a snapshot that was returned.
MissingField ==
    \/ resp.nrg = None
    \/ resp.pgt = None
    \/ (fetch = "ok" /\ pv_data.state_of_charge = None)

\* C15: a missing response field met after the readiness gate has passed is
\* handled like a network error: the pass ends with the fail-safe disable call
\* and without a request carrying frc=0.
C15_MissingFieldFailSafe ==
    (pc = "done" /\ resp # NoStatus /\ ~GateStops(resp) /\ MissingField) =>
        /\ calls = << [frc |-> 1] >>
        /\ EnablingRequests = {}

\* C16: when the status carries no pgt the buffer threshold counts as 0:
\* available_power is computed from solar_power - (household - nrg[11]) - 0
\* and the pass still reaches its decision, a setting write or a disable.
C16_AbsentPgtIsZero ==
    (pc = "done" /\ resp # NoStatus /\ ~GateStops(resp) /\ resp.nrg # None
        /\ resp.pgt = None /\ fetch = "ok" /\ pv_data.state_of_charge # None) =>
        /\ Decided
        /\ available_power = FinalPower([charger_data EXCEPT !.pgt = 0], pv_data, hour)
        /\ Len(calls) = 1

-----------------------------------------------------------------------------
\* Properties of get_token.

\* token.json holds a token that decodes and whose exp is more than 60
\* seconds ahead.
CachedAndFresh(file) ==
    /\ file \notin {"absent", "corrupt", "empty", "null"}
    /\ Decodes(file)
    /\ ExpiresIn(file) # None
    /\ ExpiresIn(file) > 60

\* C17: get_token returns the cached token without any identity request if
\* and only if a token is cached, decodes and has exp > now + 60; with a
\* cached token of exp <= now + 60, without exp or undecodable, with no token
\* or a corrupt file it requests the authorize endpoint instead of failing, and
\* then the token endpoint exactly when the configured flow is PKCE.
C17_CacheOrFlow ==
    [][ /\ pc = "token" =>
              IF CachedAndFresh(tokenFile)
              THEN /\ token' = tokenFile
                   /\ tokenFile' = tokenFile
                   /\ log' = log
                   /\ pc' = "features"
              ELSE /\ log' = Append(log, "authorize")
                   /\ \/ pc' = "exchange" /\ flow' \in {"pkce", "implicit"}
                      \/ pc' = "set" /\ fetch' = "failed"
        /\ pc = "exchange" =>
              /\ flow = "pkce" => log' = Append(log, "token")
              /\ flow = "implicit" => log' = log
      ]_vars

\* A cached token that expires in exactly 60 seconds: the PKCE flow runs.
C17_Witness ==
    /\ pc = "exchange"
    /\ tokenFile = "edge"
    /\ flow = "pkce"
    /\ log = <<"status", "authorize">>

\* C18: whenever get_token returns a freshly obtained token, token.json holds
\* exactly that token at the moment of the return; and whenever the identity
\* flow fails on an error response, get_token raises to its caller and
\* token.json keeps its previous content.
C18_StoreMatchesReturn ==
    [][ /\ (pc = "exchange" /\ pc' = "features") =>
              (saved' /\ tokenFile' = token')
        /\ (pc \in {"token", "exchange"} /\ pc' = "set") =>
              (fetch' = "failed" /\ tokenFile' = tokenFile /\ saved' = saved
               /\ token' = token)
      ]_vars

\* The token endpoint answered with an error: the stale token stays cached.
C18_Witness ==
    /\ pc = "set"
    /\ fetch = "failed"
    /\ log = <<"status", "authorize", "token">>
    /\ tokenFile = "stale"
    /\ ~saved

-----------------------------------------------------------------------------
\* Termination of a pass.

\* One step of a pass that has begun.
PassStep ==
    \/ CheckForReadiness
    \/ GetToken
    \/ CompleteFlow
    \/ GetDeviceFeatures
    \/ Decide
    \/ SetValue

\* main runs on one thread with no loop: a pass that has begun takes its
\* next step, every outbound call returning or raising.
SpecFair == Init /\ [][Next]_vars /\ WF_vars(PassStep)

\* C19: every pass terminates and no exception leaves main, whichever outbound
\* call fails, the fail-safe disable after a telemetry failure included.
C19_PassTerminates ==
    /\ [](pc # "crashed")
    /\ (pc = "ready") ~> (pc = "done")

\* The fail-safe disable itself failed and the pass ended.
C19_Witness ==
    /\ pc = "done"
    /\ raised
    /\ fetch = "failed"
    /\ calls = << [frc |-> 1] >>
    /\ sent = << [frc |-> 1] >>
    /\ device.frc = 0

-----------------------------------------------------------------------------
\* The missing redirect.

\* No code or token came with the answer of the authorize endpoint.
Unusable == {"empty", "null"}

\* C20: an authorize answer without redirect, or without code or token in the
\* redirect, is not detected.  The implicit flow persists and returns the
\* empty or absent token; the PKCE flow goes on to the token endpoint with the
\* empty or absent code.  A pass in which get_token returned such a token asks
\* the feature service, is rejected and ends in the fail-safe disable without
\* a request carrying frc=0; the next pass, finding the token persisted, runs
\* the flow again.
C20_MissingRedirect ==
    /\ []((pc = "done" /\ token \in Unusable /\ saved) =>
            /\ Count("features") = 1
            /\ fetch = "failed"
            /\ calls = << [frc |-> 1] >>
            /\ EnablingRequests = {})
    /\ [][ /\ (pc = "exchange" /\ auth_code \in Unusable /\ flow = "implicit") =>
                 /\ pc' = "features"
                 /\ saved'
                 /\ token' = auth_code
                 /\ tokenFile' = auth_code
           /\ (pc = "exchange" /\ auth_code \in Unusable /\ flow = "pkce") =>
                 /\ log' = Append(log, "token")
                 /\ \/ pc' = "set" /\ fetch' = "failed"
                    \/ pc' = "features" /\ token' \in Unusable
           /\ (pc = "token" /\ tokenFile \in Unusable) =>
                 log' = Append(log, "authorize")
         ]_vars

\* The pass after the one that persisted an empty token runs the flow again.
C20_Witness ==
    /\ pc = "exchange"
    /\ tokenFile = "empty"
    /\ log = <<"status", "authorize">>

-----------------------------------------------------------------------------
\* Two passes in a row over the same telemetry: the first pass stands at its
\* decision (the gate was passed and the snapshot fetched), makes its
\* set_value call, and the scheduler runs main() again.  calls, sent and log
\* keep the record of both passes.

Registers2 == [frc : {0, 1, 2}, amp : {6, 16}, psm : {1, 2}]

InitTwoPasses ==
    /\ pc = "decide"
    /\ device \in Registers2
    /\ \E car \in CarValues, nrg \in NrgValues \ {None}, frm \in FrmValues,
          pgt \in PgtValues :
         resp = [fup |-> TRUE, car |-> car, frc |-> device.frc,
                 amp |-> device.amp, psm |-> device.psm,
                 nrg |-> nrg, frm |-> frm, pgt |-> pgt]
    /\ charger_data = check_for_readiness(resp)
    /\ charger_data # FalseData
    /\ pv_data \in {PhotovoltaicData(production, ess, exchange, soc) :
                      production \in ProductionValues, ess \in BatteryValues,
                      exchange \in GridValues, soc \in SocValues} \ {NoPv}
    /\ tokenFile = "good"
    /\ token = "good"
    /\ saved = FALSE
    /\ fetch = "ok"
    /\ hour = None
    /\ available_power = None
    /\ kwargs = <<>>
    /\ calls = <<>>
    /\ sent = <<>>
    /\ log = <<"status", "features">>
    /\ raised = FALSE
    /\ flow = "none"
    /\ auth_code = "none"
    /\ lk = NoLookup

\* The next pass up to its decision: the status shows the charger's registers
\* as they are now and the telemetry of the pass before (fup, car, nrg, frm,
\* pgt), the cached token is used and the snapshot is the one of the pass
\* before.  hour still holds what the pass before read.
SamePassAgain ==
    /\ pc = "done"
    /\ Count("status") = 1
    /\ resp' = [resp EXCEPT !.frc = device.frc, !.amp = device.amp,
                            !.psm = device.psm]
    /\ charger_data' = check_for_readiness(resp')
    /\ IF AfterReadiness(charger_data') = "done"
       THEN /\ pc' = "done"
            /\ log' = Append(log, "status")
       ELSE /\ pc' = "decide"
            /\ log' = log \o <<"status", "features">>
    /\ kwargs' = <<>>
    /\ available_power' = None
    /\ raised' = FALSE
    /\ UNCHANGED <<device, tokenFile, token, saved, fetch, pv_data, hour, calls,
                   sent, flow, auth_code, lk>>

\* The decision; in the second pass datetime.now().hour is what it was.
DecideSameHour ==
    /\ Decide
    /\ Count("status") = 2 => hour' = hour

NextTwoPasses ==
    \/ DecideSameHour
    \/ SetValue
    \/ SamePassAgain

SpecTwoPasses == InitTwoPasses /\ [][NextTwoPasses]_vars

SecondPass == Count("status") = 2

\* The status the second pass read shows every field of the first pass's
\* set_value call: the charger applied the /set request, or no field differed.
FirstApplied ==
    /\ Len(calls) >= 1
    /\ \A k \in DOMAIN calls[1] : resp[k] = calls[1][k]

\* The /set requests issued after the second /status request.
SetsOfSecondPass ==
    {i \in DOMAIN log :
        log[i] = "set" /\ \E j \in 2..(i - 1) : log[j] = "status"}

\* C21: when the charger applied the fields of a pass's /set request and the
\* next pass sees the same telemetry, nrg, frm, pgt and hour, the next pass
\* makes the same decision and issues no /set request, after a setting written
\* with frc=0 as well as after a disable with frc=1.
C21_Fixpoint ==
    (SecondPass /\ FirstApplied) =>
        /\ SetsOfSecondPass = {}
        /\ Len(calls) = 2 => (calls[2] = calls[1] /\ Differing(resp, calls[2]) = {})
        /\ Len(sent) <= 1

\* The first pass wrote 10 A on three phases with frc=0 to a charger that was
\* disabled at 6 A on one phase; the second pass decided the same and sent
\* nothing.
C21_Witness ==
    /\ SecondPass
    /\ pc = "done"
    /\ calls = << [frc |-> 0, amp |-> 10, psm |-> 2], [frc |-> 0, amp |-> 10, psm |-> 2] >>
    /\ sent = << [frc |-> 0, amp |-> 10, psm |-> 2] >>
    /\ device = [frc |-> 0, amp |-> 10, psm |-> 2]

-----------------------------------------------------------------------------
\* Lines 131-167 of main.py on their own: a raw available_power, frm and the
\* charger's present power are drawn with the battery above 90 % before
\* 15:00, and the decision is taken twice, from the raw value and from the
\* value the override makes of it.

RawPowers ==
    Powers \cup {p - 1500 : p \in Powers} \cup {6001, 7499, 7501, 9000}

OverrideSoc == {s \in SocValues \ {None} : s > 90}
OverrideHours == {h \in Hours : h < 15}

InitOverride ==
    /\ InitMain
    /\ device.frc = 1
    /\ tokenFile = "absent"
    /\ lk \in [frm : FrmValues, nrg : NrgValues \ {None}, raw : RawPowers,
               soc : OverrideSoc, hour : OverrideHours,
               plain : {<<>>}, boosted : {<<>>}]

Override ==
    /\ lk.plain = <<>>
    /\ LET status == [NoStatus EXCEPT !.frm = lk.frm, !.nrg = lk.nrg]
       IN  lk' = [lk EXCEPT
                    !.plain = Decision(lk.frm,
                                 KeepCharging(lk.raw, status, lk.soc)),
                    !.boosted = Decision(lk.frm,
                                 KeepCharging(Boost(lk.raw, lk.soc, lk.hour),
                                              status, lk.soc))]
    /\ UNCHANGED <<pc, device, resp, charger_data, tokenFile, token, saved, fetch,
                   pv_data, hour, available_power, kwargs, calls, sent, log, raised,
                   flow, auth_code>>

NextOverride == Override

SpecOverride == InitOverride /\ [][NextOverride]_vars

\* The threshold of the table entry a setting write was taken from.
Threshold(args) ==
    Table[CHOOSE i \in DOMAIN Table : SettingArgs(i) = args].power

\* C22: with the state-of-charge override active the decision is never lower
\* than the one taken from the raw available_power: a setting write stays a
\* setting write and its threshold does not drop, for every frm and also for
\* a raw value above 7500, which the override reduces.
C22_OverrideNeverLowers ==
    (lk.plain # <<>> /\ lk.plain.frc = 0) =>
        /\ lk.boosted.frc = 0
        /\ Threshold(lk.boosted) >= Threshold(lk.plain)

\* A raw value of 9000 is cut to 7500 and still selects the largest setting.
C22_Witness ==
    /\ lk.plain # <<>>
    /\ lk.frm = 2
    /\ lk.nrg = 0
    /\ lk.raw = 9000
    /\ lk.plain = [frc |-> 0, amp |-> 10, psm |-> 2]
    /\ lk.boosted = lk.plain

====
